---------------------------- MODULE Spec2Model ----------------------------
(***************************************************************************)
(* A model of aeolus: the constants loader (aeolus/const.py) and the       *)
(* statistics reductions (aeolus/calc/stats.py).                           *)
(*                                                                         *)
(* SpecConst runs one call of init_const(name, directory) step by step.    *)
(* SpecStats runs calls of spatial, vertical_mean and cumsum on the        *)
(* caller's cubes.                                                         *)
(***************************************************************************)
EXTENDS Integers, Sequences, FiniteSets, TLC

VARIABLES
    \* ---- const.py ----
    argName,      \* init_const's `name`
    argDirectory, \* init_const's `directory`: NoneDir or a directory
    fs,           \* the file system: path -> [exists, read, entries]
    opened,       \* the paths open() was called on, in order
    cpc,          \* where the call of init_const stands
    const_dict,   \* the dict built at const.py:111-112
    self,         \* the instance under construction: attribute -> value
    convIdx,      \* position of the loop of _convert_to_iris_cubes
    cret,         \* what init_const gave its caller
    \* ---- stats.py ----
    cube,         \* the caller's cube
    other,        \* the caller's second cube (weight_by)
    sres,         \* the last statistics call: its arguments and what it gave
    before,       \* the caller's cubes as they were before the last call
    rebound       \* whether the caller has passed a result on as its cube

constVars == <<argName, argDirectory, fs, opened, cpc, const_dict, self, convIdx, cret>>
statsVars == <<cube, other, sres, before, rebound>>
vars == <<argName, argDirectory, fs, opened, cpc, const_dict, self, convIdx, cret,
          cube, other, sres, before, rebound>>

---------------------------------------------------------------------------
(* Bounds *)

\* JSON values are 1..MaxValue
MaxValue == 2
\* a cube has 1..MaxLevels points along its vertical axis
MaxLevels == 2

---------------------------------------------------------------------------
(* const.py: values *)

RECURSIVE GCD(_, _)
GCD(a, b) == IF b = 0 THEN a ELSE GCD(b, a % b)

\* A number held by a cube: the fraction n/d in lowest terms.
Frac(n, d) == LET g == GCD(n, d) IN [n |-> n \div g, d |-> d \div g]

\* The unit system: a unit is a power of the metre; units=1 is dimensionless.
Dimensionless == [metre |-> 0]
ParseUnits(u) == IF u = "m" THEN [metre |-> 1] ELSE Dimensionless
UnitDiv(u, v) == [metre |-> u.metre - v.metre]

NoName == ""

\* ScalarCube(data=..., units=..., long_name=...)
ScalarCube(data, units, long_name) ==
    [data |-> data, units |-> units, long_name |-> long_name]

\* cube / cube of the cube library: data and units divide, the name is dropped
CubeDiv(a, b) ==
    ScalarCube(Frac(a.data.n * b.data.d, a.data.d * b.data.n),
               UnitDiv(a.units, b.units), NoName)

\* ScalarCube.from_cube: keeps data, units and long_name
from_cube(c) == ScalarCube(c.data, c.units, c.long_name)

\* cube.rename(name): no such standard name exists, so long_name is set
Rename(c, name) == [c EXCEPT !.long_name = name]

---------------------------------------------------------------------------
(* const.py: the file system *)

CONST_DIR == "aeolus/phys_const_store"
OtherDir == "D"
NoneDir == "None"
Dirs == {CONST_DIR, OtherDir}
SetNames == {"general", "earth"}

FieldNames == <<"molar_gas_constant", "dry_air_molecular_weight", "dry_air_gas_constant">>

\* (directory / name).with_suffix(".json")
JsonPath(directory, name) == directory \o "/" \o name \o ".json"
Paths == {JsonPath(d, n) : d \in Dirs, n \in SetNames}

\* The objects a JSON file may hold for one constant: without "units" (any
\* value) and with "units".
JSONEntries(n) ==
    {[name |-> n, value |-> v] : v \in 1..MaxValue}
        \cup {[name |-> n, value |-> MaxValue, units |-> "m"]}

RECURSIVE JSONFilesFrom(_)
\* The JSON arrays holding each of FieldNames[i..] at most once (names are
\* unique within a file), in the order of FieldNames.
JSONFilesFrom(i) ==
    IF i > Len(FieldNames) THEN {<<>>}
    ELSE LET rest == JSONFilesFrom(i + 1)
         IN rest \cup {<<e>> \o r : e \in JSONEntries(FieldNames[i]), r \in rest}
JSONFiles == JSONFilesFrom(1)

\* What open() may find at a path: nothing, what an earlier read found, or
\* any JSON file.
Contents(path) ==
    IF ~fs[path].exists \/ fs[path].read THEN {fs[path].entries} ELSE JSONFiles

---------------------------------------------------------------------------
(* const.py: dicts (insertion-ordered) *)

EmptyDict == [keys |-> <<>>, val |-> <<>>]
InKeys(k, d) == \E i \in 1..Len(d.keys) : d.keys[i] = k
Get(d, k) == d.val[CHOOSE i \in 1..Len(d.keys) : d.keys[i] = k]

\* d[k] = v
SetItem(d, k, v) ==
    IF InKeys(k, d)
    THEN LET i == CHOOSE j \in 1..Len(d.keys) : d.keys[j] = k
         IN [d EXCEPT !.val[i] = v]
    ELSE [keys |-> Append(d.keys, k), val |-> Append(d.val, v)]

\* {k: v for k, v in vardict.items() if k != "name"}
WithoutName(vardict) == [k \in DOMAIN vardict \ {"name"} |-> vardict[k]]

RECURSIVE ListToDict(_, _)
\* const.py:71-73, the loop over list_of_dicts
ListToDict(list_of_dicts, acc) ==
    IF list_of_dicts = <<>> THEN acc
    ELSE ListToDict(Tail(list_of_dicts),
                    SetItem(acc, Head(list_of_dicts).name, WithoutName(Head(list_of_dicts))))

RECURSIVE KeepOld(_, _, _)
\* a merge in which the entries already present win
KeepOld(d, e, i) ==
    IF i > Len(e.keys) THEN d
    ELSE KeepOld(IF InKeys(e.keys[i], d) THEN d ELSE SetItem(d, e.keys[i], e.val[i]), e, i + 1)

RECURSIVE Update(_, _, _)
\* d.update(e): e's entries replace d's, new keys are appended
Update(d, e, i) ==
    IF i > Len(e.keys) THEN d
    ELSE Update(SetItem(d, e.keys[i], e.val[i]), e, i + 1)

LoadErrorMessageGeneral(name, directory) ==
    "JSON file for general configuration not found, check the directory: " \o directory
\* const.py:76-78
LoadErrorMessage(name, directory) ==
    "JSON file for " \o name \o " configuration not found, check the directory: " \o directory

NoReturn == [kind |-> "none"]
LoadError(name, directory) ==
    [kind |-> "LoadError", message |-> LoadErrorMessage(name, directory)]
AttributeError(attr) == [kind |-> "AttributeError", attr |-> attr]

---------------------------------------------------------------------------
(* const.py: init_const, step by step *)

\* the directory _read_const_file("general") searches
GeneralDirFromArg == IF argDirectory = NoneDir THEN CONST_DIR ELSE argDirectory
GeneralDir == CONST_DIR

\* the directory _read_const_file(name, **kw) searches
NameDir == IF argDirectory = NoneDir THEN CONST_DIR ELSE argDirectory

\* _read_const_file(name, directory), open() finding `entries` at the path
\* or nothing: the dict of the file, or the LoadError
_read_const_file(name, directory, entries) ==
    IF fs[JsonPath(directory, name)].exists
    THEN [raised |-> FALSE, dict |-> ListToDict(entries, EmptyDict)]
    ELSE [raised |-> TRUE, error |-> LoadError(name, directory)]

\* open() at a path: the file system has now been looked at
Open(path, entries) ==
    /\ opened' = Append(opened, path)
    /\ fs' = [fs EXCEPT ![path] = [exists |-> fs[path].exists, read |-> TRUE,
                                   entries |-> entries]]

\* const.py:111  const_dict = _read_const_file("general")
ReadGeneral ==
    /\ cpc = "call"
    /\ \E entries \in Contents(JsonPath(GeneralDir, "general")) :
           LET r == _read_const_file("general", GeneralDir, entries)
           IN /\ Open(JsonPath(GeneralDir, "general"), entries)
              /\ IF r.raised
                 THEN cret' = r.error /\ cpc' = "raised" /\ const_dict' = const_dict
                 ELSE cret' = cret /\ cpc' = "read_name" /\ const_dict' = r.dict
    /\ UNCHANGED <<argName, argDirectory, self, convIdx>>
    /\ UNCHANGED statsVars

\* const.py:112  const_dict.update(_read_const_file(name, **kw))
ReadName ==
    /\ cpc = "read_name"
    /\ \E entries \in Contents(JsonPath(NameDir, argName)) :
           LET r == _read_const_file(argName, NameDir, entries)
           IN /\ Open(JsonPath(NameDir, argName), entries)
              /\ IF r.raised
                 THEN cret' = r.error /\ cpc' = "raised" /\ const_dict' = const_dict
                 ELSE /\ cret' = cret
                      /\ cpc' = "make"
                      /\ const_dict' = Update(const_dict, r.dict, 1)
    /\ UNCHANGED <<argName, argDirectory, self, convIdx>>
    /\ UNCHANGED statsVars

\* const.py:113-116  make_dataclass and the generated __init__: every
\* declared field is set to its raw dict
MakeDataclass ==
    /\ cpc = "make"
    /\ self' = [k \in {const_dict.keys[i] : i \in 1..Len(const_dict.keys)}
                   |-> Get(const_dict, k)]
    /\ convIdx' = 1
    /\ cpc' = "convert"
    /\ UNCHANGED <<argName, argDirectory, fs, opened, const_dict, cret>>
    /\ UNCHANGED statsVars

\* the cube a raw field becomes, units dropped
ConvertedNoUnits(name, _field) ==
    ScalarCube(Frac(_field.value, 1), Dimensionless, name)
\* const.py:52-55
Converted(name, _field) ==
    ScalarCube(Frac(_field.value, 1),
               IF "units" \in DOMAIN _field THEN ParseUnits(_field.units) ELSE Dimensionless,
               name)

\* const.py:51-56  one turn of the loop of _convert_to_iris_cubes
ConvertField ==
    /\ cpc = "convert"
    /\ convIdx <= Len(const_dict.keys)
    /\ LET name == const_dict.keys[convIdx]
       IN self' = [self EXCEPT ![name] = Converted(name, self[name])]
    /\ convIdx' = convIdx + 1
    /\ UNCHANGED <<argName, argDirectory, fs, opened, const_dict, cpc, cret>>
    /\ UNCHANGED statsVars

\* const.py:46-47  the loop is over; __post_init__ goes on to _derive_const
ConvertDone ==
    /\ cpc = "convert"
    /\ convIdx > Len(const_dict.keys)
    /\ cpc' = "derive"
    /\ UNCHANGED <<argName, argDirectory, fs, opened, const_dict, self, convIdx, cret>>
    /\ UNCHANGED statsVars

\* object.__setattr__(self, name, cube)
SetAttr(obj, name, value) ==
    [k \in DOMAIN obj \cup {name} |-> IF k = name THEN value ELSE obj[k]]

\* _derive_const that keeps an attribute the JSON files gave
DeriveKeep(obj) ==
    IF "dry_air_gas_constant" \in DOMAIN obj THEN obj
    ELSE SetAttr(obj, "dry_air_gas_constant",
                 Rename(from_cube(CubeDiv(obj["molar_gas_constant"],
                                          obj["dry_air_molecular_weight"])),
                        "dry_air_gas_constant"))
\* const.py:60-63
Derive(obj) ==
    SetAttr(obj, "dry_air_gas_constant",
            Rename(from_cube(CubeDiv(obj["molar_gas_constant"],
                                     obj["dry_air_molecular_weight"])),
                   "dry_air_gas_constant"))

\* const.py:58-63 and the return of const.py:116
DeriveConst ==
    /\ cpc = "derive"
    /\ IF "molar_gas_constant" \notin DOMAIN self
       THEN /\ cret' = AttributeError("molar_gas_constant")
            /\ cpc' = "raised"
            /\ self' = self
       ELSE IF "dry_air_molecular_weight" \notin DOMAIN self
       THEN /\ cret' = AttributeError("dry_air_molecular_weight")
            /\ cpc' = "raised"
            /\ self' = self
       ELSE /\ self' = Derive(self)
            /\ cret' = [kind |-> "record", obj |-> Derive(self)]
            /\ cpc' = "returned"
    /\ UNCHANGED <<argName, argDirectory, fs, opened, const_dict, convIdx>>
    /\ UNCHANGED statsVars

---------------------------------------------------------------------------
(* stats.py: cubes *)

\* A cell of a cube's data: NaN, or a number.
NaN == [nan |-> TRUE, v |-> 0]
Num(v) == [nan |-> FALSE, v |-> v]
Cells == {NaN, Num(0), Num(1)}

\* The points of a coordinate of n points, and the bounds guess_bounds()
\* gives them (the midpoints between neighbouring points).
Points(n) == [i \in 1..n |-> 2 * (i - 1)]
GuessedBounds(points) == [i \in 1..Len(points) |-> <<points[i] - 1, points[i] + 1>>]
NoBounds == <<>>
Coordinate(n, bounded) ==
    [points |-> Points(n),
     bounds |-> IF bounded THEN GuessedBounds(Points(n)) ELSE NoBounds,
     units |-> [metre |-> 1]]
has_bounds(c) == c.bounds # NoBounds

\* The longitudes of the model's cubes.
Longitudes == {1, 2}

\* A cube: data[k][i] is the cell at level k and longitude i (of one row of
\* latitude); coords gives the coordinate of each axis role x, y, z.
DataArrays == UNION {[1..nz -> [Longitudes -> Cells]] : nz \in 1..MaxLevels}
CubeOf(name, data, bx, by, bz) ==
    [name |-> name,
     units |-> Dimensionless,
     data |-> data,
     coords |-> [x |-> Coordinate(Cardinality(Longitudes), bx),
                 y |-> Coordinate(Cardinality(Longitudes), by),
                 z |-> Coordinate(Len(data), bz)]]
InputCubes ==
    {CubeOf("T", data, bx, by, bz) : data \in DataArrays, bx \in BOOLEAN,
                                     by \in BOOLEAN, bz \in BOOLEAN}
\* the cubes a caller may pass as weight_by with a cube of nz levels (the
\* two are multiplied, so they have one shape)
WeightCubes(nz) ==
    {CubeOf("w", [k \in 1..nz |-> [i \in Longitudes |-> Num(1)]], TRUE, TRUE, bz) :
        bz \in BOOLEAN}

NoCall == [op |-> "none", args |-> <<>>, kind |-> "none", value |-> <<>>]
Returned(op, args, value) == [op |-> op, args |-> args, kind |-> "cube", value |-> value]
Raised(op, args, error) == [op |-> op, args |-> args, kind |-> "error", value |-> error]

\* cube.collapsed(coords, aggregator, weights=...): the cube library's
\* reduction, kept as the call that was made
Collapsed(c, coords, aggregator, weights) ==
    [name |-> c.name, op |-> "collapsed", of |-> c, coords |-> coords,
     aggregator |-> aggregator, weights |-> weights]
NoWeights == [kind |-> "none"]

---------------------------------------------------------------------------
(* stats.py: spatial *)

AggrNames == {"mean", "Mean", "sum", "min", "max", "percentile", "average"}

\* aggr.upper()
Upper(aggr) ==
    CASE aggr \in {"mean", "Mean"} -> "MEAN"
      [] aggr = "sum" -> "SUM"
      [] aggr = "min" -> "MIN"
      [] aggr = "max" -> "MAX"
      [] aggr = "percentile" -> "PERCENTILE"
      [] aggr = "average" -> "AVERAGE"

\* The aggregators of iris.analysis the model knows, and whether each is a
\* WeightedAggregator.
Aggregators == [MEAN |-> TRUE, SUM |-> TRUE, MIN |-> FALSE, MAX |-> FALSE,
                PERCENTILE |-> FALSE]

\* ensure_bounds(cube, coords=("x", "y")): bounds are guessed, on the cube
\* itself, for each of the named coordinates that has none
ensure_bounds(c, axes) ==
    [c EXCEPT !.coords =
        [a \in DOMAIN c.coords |->
            IF a \in axes /\ ~has_bounds(c.coords[a])
            THEN [c.coords[a] EXCEPT !.bounds = GuessedBounds(c.coords[a].points)]
            ELSE c.coords[a]]]

\* area_weights_cube(cube, normalize=True).data
AreaWeights == [kind |-> "area", normalize |-> TRUE]

\* weights whenever the bounds are there, whatever the aggregator
SpatialWeightsAlways(c, aggregator) ==
    IF has_bounds(c.coords.y) /\ has_bounds(c.coords.x) THEN AreaWeights ELSE NoWeights
\* stats.py:54-59
SpatialWeights(c, aggregator) ==
    IF has_bounds(c.coords.y) /\ has_bounds(c.coords.x) /\ Aggregators[aggregator]
    THEN AreaWeights
    ELSE NoWeights

\* stats.py:52-60
CallSpatial(aggr) ==
    LET args == [aggr |-> aggr]
        bounded == ensure_bounds(cube, {"x", "y"})
    IN /\ sres = NoCall
       /\ before' = [cube |-> cube, other |-> other]
       /\ cube' = bounded
       /\ IF Upper(aggr) \in DOMAIN Aggregators
          THEN sres' = Returned("spatial", args,
                                Collapsed(bounded, {"y", "x"}, Upper(aggr),
                                          SpatialWeights(bounded, Upper(aggr))))
          ELSE sres' = Raised("spatial", args,
                              [type |-> "AttributeError", attr |-> Upper(aggr)])
       /\ UNCHANGED <<other, rebound>>
       /\ UNCHANGED constVars

---------------------------------------------------------------------------
(* stats.py: vertical_mean *)

\* The values a caller may pass as weight_by, by type; a str or a
\* coordinate names a coordinate of the cube, a Cube is the caller's `other`.
WeightBys ==
    {[type |-> "NoneType"], [type |-> "Cube"], [type |-> "int"], [type |-> "ndarray"]}
        \cup {[type |-> t, coord |-> a] : t \in {"str", "DimCoord", "AuxCoord"},
                                          a \in {"z"}}

\* isinstance(weight_by, cls): DimCoord and AuxCoord derive from Coord
IsInstance(weight_by, cls) ==
    \/ weight_by.type = cls
    \/ cls = "Coord" /\ weight_by.type \in {"DimCoord", "AuxCoord"}

\* a test that lets only names through
IsStrOnly(weight_by) == IsInstance(weight_by, "str")
\* stats.py:193
IsStrOrCoord(weight_by) == IsInstance(weight_by, "str") \/ IsInstance(weight_by, "Coord")

\* a copy that keeps its bounds
KeepBounds(c, axis) == c
\* c.copy() with .coord(axis).bounds = None
StripBounds(c, axis) == [c EXCEPT !.coords[axis].bounds = NoBounds]

\* b * a of the cube library, kept as the call that was made
Mul(b, a) == [name |-> "unknown", op |-> "mul", left |-> b, right |-> a]

\* integrate(cube, coord) of aeolus.calc.calculus, kept as the call that was made
integrate(c, coord) == [name |-> "unknown", op |-> "integrate", of |-> c, coord |-> coord]

Div(a, b) == [name |-> "unknown", op |-> "div", num |-> a, den |-> b]

\* stats.py:198-203
IntegralRatio(c, weight_by) ==
    LET a_copy == StripBounds(c, "z")
        b_copy == StripBounds(weight_by, "z")
        prod == Mul(b_copy, a_copy)
    IN Div(integrate(prod, "z"), integrate(weight_by, "z"))

\* vmean.rename(...)
RenameCube(c, name) == [c EXCEPT !.name = name]

\* stats.py:189-207
CallVerticalMean(weight_by) ==
    LET args == [weight_by |-> weight_by]
        name == "vertical_mean_of_" \o cube.name
    IN /\ sres = NoCall
       /\ before' = [cube |-> cube, other |-> other]
       /\ IF IsInstance(weight_by, "NoneType")
          THEN sres' = Returned("vertical_mean", args,
                                RenameCube(Collapsed(cube, {"z"}, "MEAN", NoWeights), name))
          ELSE IF IsStrOrCoord(weight_by)
          THEN sres' = Returned("vertical_mean", args,
                                RenameCube(Collapsed(cube, {"z"}, "MEAN",
                                                     [kind |-> "points",
                                                      points |-> cube.coords[weight_by.coord].points]),
                                           name))
          ELSE IF IsInstance(weight_by, "Cube")
          THEN sres' = Returned("vertical_mean", args,
                                RenameCube(IntegralRatio(cube, other), name))
          ELSE sres' = Raised("vertical_mean", args,
                              [type |-> "ValueError",
                               message |-> "unrecognised type of weight_by: <class '"
                                               \o weight_by.type \o "'>"])
       /\ UNCHANGED <<cube, other, rebound>>
       /\ UNCHANGED constVars

---------------------------------------------------------------------------
(* stats.py: cumsum *)

AxisNames == {"z", "x", "t"}

\* cube.coord_dims(c): the dimension of the data an axis runs along
CoordDim(axis) == IF axis = "z" THEN 0 ELSE 1

\* the array seen as its lines along dimension dim: lines[j][k]
Lines(data, dim) ==
    IF dim = 0
    THEN [i \in Longitudes |-> [k \in 1..Len(data) |-> data[k][i]]]
    ELSE [k \in 1..Len(data) |-> [i \in 1..Cardinality(Longitudes) |-> data[k][i]]]
\* and back
FromLines(lines, dim, nz) ==
    IF dim = 0
    THEN [k \in 1..nz |-> [i \in Longitudes |-> lines[i][k]]]
    ELSE [k \in 1..nz |-> [i \in Longitudes |-> lines[k][i]]]

Add(a, b) == IF a.nan \/ b.nan THEN NaN ELSE Num(a.v + b.v)
ZeroIfNaN(a) == IF a.nan THEN Num(0) ELSE a

RECURSIVE CumsumLine(_, _, _)
\* the running sum of a line, NaN spreading as in a plain sum
CumsumLine(line, k, acc) ==
    IF k > Len(line) THEN <<>>
    ELSE <<Add(acc, line[k])>> \o CumsumLine(line, k + 1, Add(acc, line[k]))

RECURSIVE NanCumsumLine(_, _, _)
\* the running sum of a line, NaN counted as zero
NanCumsumLine(line, k, acc) ==
    IF k > Len(line) THEN <<>>
    ELSE <<Add(acc, ZeroIfNaN(line[k]))>>
             \o NanCumsumLine(line, k + 1, Add(acc, ZeroIfNaN(line[k])))

\* np.cumsum(data, axis=dim)
cumsum_plain(data, dim) ==
    LET lines == Lines(data, dim)
    IN FromLines([j \in DOMAIN lines |-> CumsumLine(lines[j], 1, Num(0))], dim, Len(data))
\* np.nancumsum(data, axis=dim)
nancumsum(data, dim) ==
    LET lines == Lines(data, dim)
    IN FromLines([j \in DOMAIN lines |-> NanCumsumLine(lines[j], 1, Num(0))], dim, Len(data))

\* cube.data * broadcast_to_shape(widths, cube.shape, dim)
Weighted(data, widths, dim) ==
    [k \in 1..Len(data) |->
        [i \in Longitudes |->
            IF data[k][i].nan THEN NaN
            ELSE Num(data[k][i].v * (IF dim = 0 THEN widths[k] ELSE widths[i]))]]

\* stats.py:230-248
CallCumsum(axis, axis_weights) ==
    LET args == [axis |-> axis, axis_weights |-> axis_weights] IN
    /\ sres = NoCall
    /\ before' = [cube |-> cube, other |-> other]
    /\ IF axis \notin DOMAIN cube.coords
       THEN sres' = Raised("cumsum", args, [type |-> "CoordinateNotFoundError", axis |-> axis])
       ELSE LET c == cube.coords[axis]
                dim == CoordDim(axis)
                cb == IF has_bounds(c) THEN c
                      ELSE [c EXCEPT !.bounds = GuessedBounds(c.points)]
                widths == [i \in 1..Len(cb.bounds) |-> cb.bounds[i][2] - cb.bounds[i][1]]
                data == IF axis_weights THEN Weighted(cube.data, widths, dim) ELSE cube.data
                units == IF axis_weights
                         THEN [metre |-> cube.units.metre + c.units.metre]
                         ELSE cube.units
            IN sres' = Returned("cumsum", args,
                                [cube EXCEPT !.data = nancumsum(data, dim),
                                             !.name = "cumulative_sum_of_" \o cube.name
                                                          \o "_along_" \o axis,
                                             !.units = units])
    /\ UNCHANGED <<cube, other, rebound>>
    /\ UNCHANGED constVars

\* The caller goes on with the cube a cumsum returned: cube = cumsum(cube, ...)
Rebind ==
    /\ ~rebound
    /\ sres.op = "cumsum"
    /\ sres.kind = "cube"
    /\ cube' = sres.value
    /\ before' = [cube |-> sres.value, other |-> other]
    /\ sres' = NoCall
    /\ rebound' = TRUE
    /\ UNCHANGED other
    /\ UNCHANGED constVars

NoCube == [name |-> ""]
InitStatsIdle ==
    /\ cube = NoCube
    /\ other = NoCube
    /\ sres = NoCall
    /\ before = <<>>
    /\ rebound = FALSE

InitConstIdle ==
    /\ argName = "earth"
    /\ argDirectory = NoneDir
    /\ fs = <<>>
    /\ opened = <<>>
    /\ cpc = "idle"
    /\ const_dict = EmptyDict
    /\ self = <<>>
    /\ convIdx = 0
    /\ cret = NoReturn

---------------------------------------------------------------------------
(* Specifications *)

InitConst ==
    /\ argName \in SetNames
    /\ argDirectory \in {NoneDir, OtherDir}
    /\ fs \in [Paths -> {[exists |-> b, read |-> FALSE, entries |-> <<>>] : b \in BOOLEAN}]
    /\ opened = <<>>
    /\ cpc = "call"
    /\ const_dict = EmptyDict
    /\ self = <<>>
    /\ convIdx = 0
    /\ cret = NoReturn
    /\ InitStatsIdle

NextConst ==
    \/ ReadGeneral
    \/ ReadName
    \/ MakeDataclass
    \/ ConvertField
    \/ ConvertDone
    \/ DeriveConst

SpecConst == InitConst /\ [][NextConst]_vars

InitStats ==
    /\ cube \in InputCubes
    /\ other \in WeightCubes(Len(cube.data))
    /\ sres = NoCall
    /\ before = [cube |-> cube, other |-> other]
    /\ rebound = FALSE
    /\ InitConstIdle

NextStats ==
    \/ \E aggr \in AggrNames : CallSpatial(aggr)
    \/ \E weight_by \in WeightBys : CallVerticalMean(weight_by)
    \/ \E axis \in AxisNames, axis_weights \in BOOLEAN : CallCumsum(axis, axis_weights)
    \/ Rebind

SpecStats == InitStats /\ [][NextStats]_vars

---------------------------------------------------------------------------
(* Claims about init_const *)

GeneralPath == JsonPath(CONST_DIR, "general")
NamePath == JsonPath(IF argDirectory = NoneDir THEN CONST_DIR ELSE argDirectory, argName)
Finished == cpc \in {"returned", "raised"}

NamesIn(file) == {file[i].name : i \in 1..Len(file)}
EntryIn(file, n) == file[CHOOSE i \in 1..Len(file) : file[i].name = n]
\* the entry of the files read that the record's field n must carry
WinningEntry(n) ==
    IF n \in NamesIn(fs[NamePath].entries) THEN EntryIn(fs[NamePath].entries, n)
    ELSE EntryIn(fs[GeneralPath].entries, n)
CubeOfEntry(n, e) ==
    [data |-> [n |-> e.value, d |-> 1],
     units |-> IF "units" \in DOMAIN e /\ e.units = "m" THEN [metre |-> 1] ELSE [metre |-> 0],
     long_name |-> n]
MergedNames == NamesIn(fs[GeneralPath].entries) \cup NamesIn(fs[NamePath].entries)
DeclaredFields == {const_dict.keys[i] : i \in 1..Len(const_dict.keys)}
Derived == "dry_air_gas_constant"

\* C1 as stated: a call given a directory D that holds no general.json ends
\* in the load error, so it never returns a record.
C1_Original ==
    (argDirectory = OtherDir /\ ~fs[JsonPath(OtherDir, "general")].exists)
        => (cpc # "returned" /\ cret.kind # "record")

\* C1 amended: the call ends in a LoadError exactly when general.json is
\* missing from the default directory CONST_DIR or <name>.json is missing
\* from the directory searched for it (D when given, else CONST_DIR).
C1_LoadErrorIff ==
    Finished =>
        (cret.kind = "LoadError"
            <=> (~fs[GeneralPath].exists \/ ~fs[NamePath].exists))

\* a record is returned for directory=D although D holds no general.json
C1_Witness ==
    /\ cpc = "returned"
    /\ cret.kind = "record"
    /\ argDirectory = OtherDir
    /\ argName = "earth"
    /\ ~fs[JsonPath(OtherDir, "general")].exists

\* C2 as stated: every merged name's field carries the winning entry (the
\* set-specific one on collision), and the declared fields are the union.
C2_Original ==
    cpc = "returned" =>
        /\ DeclaredFields = MergedNames
        /\ \A n \in MergedNames : cret.obj[n] = CubeOfEntry(n, WinningEntry(n))

\* C2 amended: the same for every merged name other than
\* dry_air_gas_constant, whose field holds the derived value.
C2_MergePrecedence ==
    cpc = "returned" =>
        /\ DeclaredFields = MergedNames
        /\ \A n \in MergedNames \ {Derived} :
               cret.obj[n] = CubeOfEntry(n, WinningEntry(n))

\* a name in both files: general.json gives units, the set's file another
\* value and no units
C2_Witness ==
    /\ cpc = "returned"
    /\ argName = "earth"
    /\ \E n \in (NamesIn(fs[GeneralPath].entries) \cap NamesIn(fs[NamePath].entries)) \ {Derived} :
           /\ "units" \in DOMAIN EntryIn(fs[GeneralPath].entries, n)
           /\ "units" \notin DOMAIN EntryIn(fs[NamePath].entries, n)
           /\ EntryIn(fs[GeneralPath].entries, n).value # EntryIn(fs[NamePath].entries, n).value
    /\ \E n \in NamesIn(fs[GeneralPath].entries) : n \notin NamesIn(fs[NamePath].entries)
    /\ \E n \in NamesIn(fs[NamePath].entries) : n \notin NamesIn(fs[GeneralPath].entries)

\* C3: a returned record has dry_air_gas_constant, so named, equal to
\* molar_gas_constant / dry_air_molecular_weight of the record (also when a
\* JSON file supplied it); and a call whose merged keys lack either of the two
\* returns no record.
C3_DerivedConstant ==
    /\ cpc = "returned" =>
           /\ Derived \in DOMAIN cret.obj
           /\ LET r == cret.obj[Derived]
                  a == cret.obj["molar_gas_constant"]
                  b == cret.obj["dry_air_molecular_weight"]
              IN /\ r.long_name = "dry_air_gas_constant"
                 /\ r.data.n * (a.data.d * b.data.n) = r.data.d * (a.data.n * b.data.d)
                 /\ r.data.d > 0
                 /\ r.units.metre = a.units.metre - b.units.metre
    /\ (Finished /\ fs[GeneralPath].exists /\ fs[NamePath].exists
            /\ ~({"molar_gas_constant", "dry_air_molecular_weight"} \subseteq MergedNames))
           => (cpc = "raised" /\ cret.kind = "AttributeError")

\* a JSON file supplied dry_air_gas_constant with another value than the
\* derived one
C3_Witness ==
    /\ cpc = "returned"
    /\ Derived \in MergedNames
    /\ cret.obj[Derived] # CubeOfEntry(Derived, WinningEntry(Derived))

\* C8: a LoadError names the missing set and the directory searched for it;
\* nothing is returned or built; the missing file was opened once; and the
\* set's file is not opened when general.json is the missing one.
C8_LoadErrorNames ==
    cret.kind = "LoadError" =>
        /\ cpc = "raised"
        /\ self = <<>>
        /\ IF ~fs[GeneralPath].exists
           THEN /\ cret.message =
                      "JSON file for general configuration not found, check the directory: "
                          \o CONST_DIR
                /\ opened = <<GeneralPath>>
           ELSE /\ ~fs[NamePath].exists
                /\ cret.message =
                      "JSON file for " \o argName
                          \o " configuration not found, check the directory: "
                          \o (IF argDirectory = NoneDir THEN CONST_DIR ELSE argDirectory)
                /\ opened = <<GeneralPath, NamePath>>

\* the set's file is missing from the directory given
C8_Witness ==
    /\ cret.kind = "LoadError"
    /\ argDirectory = OtherDir
    /\ argName = "earth"
    /\ Len(opened) = 2

IsScalarCube(v) == DOMAIN v = {"data", "units", "long_name"}

\* C10 as stated: a returned record's every declared field is a cube with
\* the JSON value, the JSON units (or dimensionless) and the field's name;
\* nothing is returned before the conversion is over or when a step fails.
C10_Original ==
    /\ cret.kind = "record" =>
           /\ cpc = "returned"
           /\ \A n \in DeclaredFields :
                  /\ IsScalarCube(cret.obj[n])
                  /\ cret.obj[n].data = [n |-> Get(const_dict, n).value, d |-> 1]
                  /\ cret.obj[n].units =
                         (IF "units" \in DOMAIN Get(const_dict, n)
                          THEN [metre |-> 1] ELSE [metre |-> 0])
                  /\ cret.obj[n].long_name = n
    /\ cpc \in {"convert", "derive", "raised"} => cret.kind # "record"

\* C10 amended: the same, except that a declared dry_air_gas_constant holds
\* the derived value (a cube, named after the field) instead of the JSON value.
C10_FullyConverted ==
    /\ cret.kind = "record" =>
           /\ cpc = "returned"
           /\ \A n \in DeclaredFields :
                  /\ IsScalarCube(cret.obj[n])
                  /\ cret.obj[n].long_name = n
                  /\ n # Derived =>
                         /\ cret.obj[n].data = [n |-> Get(const_dict, n).value, d |-> 1]
                         /\ cret.obj[n].units =
                                (IF "units" \in DOMAIN Get(const_dict, n)
                                 THEN [metre |-> 1] ELSE [metre |-> 0])
    /\ cpc \in {"convert", "derive", "raised"} => cret.kind # "record"

\* a record is returned whose fields came with and without units
C10_Witness ==
    /\ cret.kind = "record"
    /\ \E n \in DeclaredFields \ {Derived} : "units" \in DOMAIN Get(const_dict, n)
    /\ \E n \in DeclaredFields \ {Derived} : "units" \notin DOMAIN Get(const_dict, n)

---------------------------------------------------------------------------
(* Claims about the statistics functions *)

VMeanName == "vertical_mean_of_" \o before.cube.name
MeanOverZ(v) ==
    /\ v.op = "collapsed"
    /\ v.of = before.cube
    /\ v.coords = {"z"}
    /\ v.aggregator = "MEAN"

\* C4: vertical_mean takes one of four ways by the type of weight_by: None,
\* the plain mean over z; a str or a coordinate, the mean weighted by that
\* coordinate's points; a cube, the ratio of integrals; anything else, a
\* ValueError naming the type and no result. Every result is named
\* vertical_mean_of_<the cube's name>.
C4_Dispatch ==
    sres.op = "vertical_mean" =>
        LET t == sres.args.weight_by.type
            v == sres.value
        IN /\ t = "NoneType" =>
                  /\ sres.kind = "cube" /\ MeanOverZ(v) /\ v.weights = [kind |-> "none"]
           /\ t \in {"str", "DimCoord", "AuxCoord"} =>
                  /\ sres.kind = "cube" /\ MeanOverZ(v)
                  /\ v.weights = [kind |-> "points",
                                  points |-> before.cube.coords[sres.args.weight_by.coord].points]
           /\ t = "Cube" =>
                  /\ sres.kind = "cube" /\ v.op = "div"
                  /\ v.num.op = "integrate" /\ v.den.op = "integrate"
           /\ t \notin {"NoneType", "str", "DimCoord", "AuxCoord", "Cube"} =>
                  /\ sres.kind = "error"
                  /\ v.type = "ValueError"
                  /\ v.message = "unrecognised type of weight_by: <class '" \o t \o "'>"
           /\ sres.kind = "cube" => v.name = VMeanName
           /\ sres.kind \in {"cube", "error"}

\* a coordinate object was passed as weight_by
C4_Witness ==
    /\ sres.op = "vertical_mean"
    /\ sres.args.weight_by.type = "AuxCoord"
    /\ sres.kind = "cube"

WeightCubeCall == sres.op = "vertical_mean" /\ sres.args.weight_by.type = "Cube"
Stripped(c) == [c EXCEPT !.coords.z.bounds = <<>>]

\* C5 as stated: with a cube as weight_by the result is
\* integrate(weight_by * cube) / integrate(weight_by) over z, and the cubes
\* that are integrated, in the numerator and in the denominator, are the
\* ones whose vertical bounds were stripped.
C5_Original ==
    WeightCubeCall =>
        /\ sres.value.op = "div"
        /\ sres.value.num = [name |-> "unknown", op |-> "integrate", coord |-> "z",
                             of |-> [name |-> "unknown", op |-> "mul",
                                     left |-> Stripped(before.other),
                                     right |-> Stripped(before.cube)]]
        /\ sres.value.den = [name |-> "unknown", op |-> "integrate", coord |-> "z",
                             of |-> Stripped(before.other)]

\* C5 amended: the product integrated in the numerator is of the two
\* bound-stripped copies; the cube integrated in the denominator is weight_by
\* as the caller passed it, with the vertical bounds it came with.
C5_IntegralRatio ==
    WeightCubeCall =>
        /\ sres.value.op = "div"
        /\ sres.value.num = [name |-> "unknown", op |-> "integrate", coord |-> "z",
                             of |-> [name |-> "unknown", op |-> "mul",
                                     left |-> Stripped(before.other),
                                     right |-> Stripped(before.cube)]]
        /\ sres.value.den = [name |-> "unknown", op |-> "integrate", coord |-> "z",
                             of |-> before.other]

\* both cubes came with vertical bounds
C5_Witness ==
    /\ WeightCubeCall
    /\ sres.kind = "cube"
    /\ before.cube.coords.z.bounds # <<>>
    /\ before.other.coords.z.bounds # <<>>

\* C6: spatial leaves both horizontal axes with bounds; an aggregator name
\* that resolves gives the collapse over y and x, with the normalized area
\* weights exactly when both axes have bounds and the aggregator is a
\* weighted one (mean, sum), and without weights otherwise (min, max,
\* percentile); a name that does not resolve gives the lookup error and no
\* cube.
C6_SpatialWeights ==
    sres.op = "spatial" =>
        LET a == sres.args.aggr
            v == sres.value
            bounded == cube.coords.x.bounds # <<>> /\ cube.coords.y.bounds # <<>>
        IN /\ bounded
           /\ a \in {"mean", "Mean", "sum", "min", "max", "percentile"} =>
                  /\ sres.kind = "cube"
                  /\ v.op = "collapsed"
                  /\ v.coords = {"x", "y"}
                  /\ v.weights \in {[kind |-> "area", normalize |-> TRUE], [kind |-> "none"]}
                  /\ v.weights = [kind |-> "area", normalize |-> TRUE]
                         <=> (bounded /\ a \in {"mean", "Mean", "sum"})
           /\ a = "average" =>
                  /\ sres.kind = "error"
                  /\ v.type = "AttributeError"

\* the maximum of a cube that came without horizontal bounds: no weights
C6_Witness ==
    /\ sres.op = "spatial"
    /\ sres.args.aggr = "max"
    /\ sres.kind = "cube"
    /\ sres.value.weights = [kind |-> "none"]
    /\ before.cube.coords.x.bounds = <<>>

RECURSIVE SumUpTo(_, _)
\* line[1] + ... + line[k], NaN counted as zero
SumUpTo(line, k) ==
    IF k = 0 THEN 0
    ELSE (IF line[k].nan THEN 0 ELSE line[k].v) + SumUpTo(line, k - 1)

UnweightedCumsum ==
    sres.op = "cumsum" /\ sres.kind = "cube" /\ ~sres.args.axis_weights

\* C7: cumsum without axis weights gives a cube of the input's shape whose
\* cell k along the axis is the sum of the input's cells up to k, NaN counted
\* as zero (so the last is the sum over the whole axis), named
\* cumulative_sum_of_<name>_along_<axis>.
C7_Cumsum ==
    UnweightedCumsum =>
        LET in == before.cube.data
            out == sres.value.data
            nz == Len(in)
        IN /\ Len(out) = nz
           /\ \A k \in 1..nz : DOMAIN out[k] = DOMAIN in[k]
           /\ \A k \in 1..nz : \A i \in DOMAIN in[k] :
                  out[k][i] =
                      [nan |-> FALSE,
                       v |-> IF sres.args.axis = "z"
                             THEN SumUpTo([j \in 1..nz |-> in[j][i]], k)
                             ELSE SumUpTo(in[k], i)]
           /\ sres.value.name =
                  "cumulative_sum_of_" \o before.cube.name \o "_along_" \o sres.args.axis

\* cumsum is not idempotent: the cumsum along z of a cumsum along z differs
\* from it
C7_Witness ==
    /\ UnweightedCumsum
    /\ rebound
    /\ sres.args.axis = "z"
    /\ before.cube.name = "cumulative_sum_of_T_along_z"
    /\ before.cube.units = [metre |-> 0]
    /\ sres.value.data # before.cube.data
    /\ Len(before.cube.data) > 1

\* C9: no statistics call changes the cubes it is given: spatial leaves the
\* horizontal bounds of the caller's cube as they were, vertical_mean with a
\* cube as weight_by leaves both cubes as they were, cumsum leaves the cube as
\* it was.
C9_Original ==
    /\ sres.op = "spatial" =>
           /\ cube.coords.x.bounds = before.cube.coords.x.bounds
           /\ cube.coords.y.bounds = before.cube.coords.y.bounds
    /\ sres.op = "vertical_mean" => (cube = before.cube /\ other = before.other)
    /\ sres.op = "cumsum" => (cube = before.cube /\ other = before.other)

=============================================================================
